---- MODULE Spec2Model ----
(***************************************************************************)
(* Model of the request pipeline built in src/main.rs (main, lines         *)
(* 100-157): an axum Router of five routes, each wrapped by the layer      *)
(* stack                                                                   *)
(*   HandleError(handle_error)                         outermost           *)
(*     ConcurrencyLimit(2)                                                 *)
(*       Timeout(10 s)                                                     *)
(*         SetRequestId(x-request-id, MakeRequestUlid)                     *)
(*           Trace                                                         *)
(*             PropagateRequestId(x-request-id)                            *)
(*               handler                               innermost           *)
(* and served with graceful shutdown on Ctrl-C.                            *)
(*                                                                         *)
(* ServiceBuilder applies its layers top to bottom, the first one          *)
(* outermost.  Router::layer applies the stack to every route separately,  *)
(* and ConcurrencyLimitLayer::layer builds a new semaphore for each        *)
(* service it wraps, so every route owns a semaphore of 2 permits.         *)
(* No LoadShed layer is installed (line 136 is commented out), so a        *)
(* request that finds no permit waits in the semaphore's FIFO queue.       *)
(* A handler is a future: when Timeout's deadline fires, or when the       *)
(* handler panics, the future chain is dropped, which cancels the handler  *)
(* and drops the permit it holds.                                          *)
(***************************************************************************)
EXTENDS Integers, Sequences, FiniteSets, TLC

\* ---------------------------------------------------------------- bounds
MaxReqs == 3
MaxChain == 3
MaxClock == 2
MaxIds == 3
MaxRand == 1
MaxContent == 4

\* ------------------------------------------------------ program constants
Limit == 2
Deadline == 10
TimeoutWork == 20
DelayWork == 5
\* time advances in steps of the smallest duration of the program
TickLen == DelayWork

Reqs == 1..MaxReqs
Routes == {"healthcheck", "timeout", "delay", "upload", "download"}
NoRoute == "none"
NoId == <<>>
\* values a client may put in the x-request-id header of a request
InboundIds == {<<"client">>}
\* no response was written (yet)
NoStatus == 0

DurationMiswired(rt) ==
  CASE rt = "healthcheck" -> TimeoutWork
    [] rt = "delay" -> DelayWork
    [] OTHER -> 0

\* how long the handler of a route works before it returns
Duration(rt) ==
  CASE rt = "timeout" -> TimeoutWork
    [] rt = "delay" -> DelayWork
    [] OTHER -> 0

\* the body of the response a route's handler returns: only avro_to_json
\* returns anything but ()
HandlerBody(rt) == IF rt = "download" THEN <<"json">> ELSE <<>>

\* the handlers that unwrap() the results of file and codec operations
CanPanic(rt) == rt \in {"upload", "download"}

\* ------------------------------------------------------- error classifier
ErrKinds == {"Elapsed", "Overloaded", "Io", "Other"}

RECURSIVE Chains(_)
\* errors: a top-level error kind followed by the chain of its sources
Chains(n) ==
  IF n = 0 THEN {<<>>}
  ELSE LET shorter == Chains(n - 1)
       IN shorter \cup {<<k>> \o c : k \in ErrKinds, c \in {s \in shorter : Len(s) = n - 1}}

Errors == Chains(MaxChain) \ {<<>>}

\* err.is::<T>(): the boxed error itself is a T (its sources are not looked at)
Is(e, kind) == Head(e) = kind

handle_error_swapped(e) ==
  IF Is(e, "Elapsed") THEN 429
  ELSE IF Is(e, "Overloaded") THEN 408
  ELSE 500

handle_error(e) ==
  IF Is(e, "Elapsed") THEN 408
  ELSE IF Is(e, "Overloaded") THEN 429
  ELSE 500

VARIABLES
  pc,            \* per request: idle, waiting, running, done, aborted, closed,
                 \*   dropped, refused
  route,         \* per request: the route it asks for
  inHdr,         \* per request: the x-request-id header of the request, or NoId
  reqId,         \* per request: the identifier SetRequestId gave it, or NoId
  generated,     \* per request: make_request_id was called for it
  elapsed,       \* per request: time since its Timeout and handler started
  status,        \* per request: the status of the response delivered
  respHdr,       \* per request: the x-request-id header of the response
  traced,        \* per request: the status Trace recorded for its span
  waited,        \* per request: time it spent queued for a permit
  log,           \* per request: the pipeline stages performed, in order
  holds,         \* per request: its future holds a semaphore permit
  releases,      \* per request: how many times its permit was dropped
  fullAtArrival, \* per request: its route had no free permit when it arrived
  afterSig,      \* per request: it arrived after the termination signal
  permits,       \* per route: free permits of the route's semaphore
  queue,         \* per route: requests waiting for a permit, in FIFO order
  sig,           \* Ctrl-C was received
  busyAtSig,     \* requests were in flight when Ctrl-C was received
  exited,        \* the server future completed and main returned
  err,           \* classifier check: the error given to handle_error
  classified,    \* classifier check: the status handle_error returned
  now,           \* identifier check: the clock Ulid::new() reads
  issued,        \* identifier check: the identifiers made, in order of making
  schema,        \* file handlers: ./schema.avro is valid, missing or malformed
  file,          \* file handlers: the content of ./record.avro
  resp,          \* file handlers: what the latest request got back
  lastUp         \* file handlers: the content of the latest upload that succeeded

reqVars == <<pc, route, inHdr, reqId, generated, elapsed, status, respHdr, traced,
             waited, log, holds, releases, fullAtArrival, afterSig>>
srvVars == <<permits, queue, sig, busyAtSig, exited>>
clsVars == <<err, classified>>
ulidVars == <<now, issued>>
fileVars == <<schema, file, resp, lastUp>>
auxVars == <<clsVars, ulidVars, fileVars>>
vars == <<reqVars, srvVars, auxVars>>

TypeOK ==
  /\ pc \in [Reqs -> {"idle", "waiting", "running", "done", "aborted", "closed",
                     "dropped", "refused"}]
  /\ route \in [Reqs -> Routes \cup {NoRoute}]
  /\ elapsed \in [Reqs -> 0..Deadline]
  /\ status \in [Reqs -> {NoStatus, 200, 408, 429, 500}]
  /\ holds \in [Reqs -> BOOLEAN]
  /\ releases \in [Reqs -> 0..2]
  /\ permits \in [Routes -> 0..Limit]
  /\ \A rt \in Routes :
       permits[rt] + Cardinality({r \in Reqs : holds[r] /\ route[r] = rt}) = Limit
  /\ sig \in BOOLEAN
  /\ exited \in BOOLEAN

InitReqs ==
  /\ pc = [r \in Reqs |-> "idle"]
  /\ route = [r \in Reqs |-> NoRoute]
  /\ inHdr = [r \in Reqs |-> NoId]
  /\ reqId = [r \in Reqs |-> NoId]
  /\ generated = [r \in Reqs |-> FALSE]
  /\ elapsed = [r \in Reqs |-> 0]
  /\ status = [r \in Reqs |-> NoStatus]
  /\ respHdr = [r \in Reqs |-> NoId]
  /\ traced = [r \in Reqs |-> NoStatus]
  /\ waited = [r \in Reqs |-> 0]
  /\ log = [r \in Reqs |-> <<>>]
  /\ holds = [r \in Reqs |-> FALSE]
  /\ releases = [r \in Reqs |-> 0]
  /\ fullAtArrival = [r \in Reqs |-> FALSE]
  /\ afterSig = [r \in Reqs |-> FALSE]

InitServer ==
  /\ permits = [rt \in Routes |-> Limit]
  /\ queue = [rt \in Routes |-> <<>>]
  /\ sig = FALSE
  /\ busyAtSig = FALSE
  /\ exited = FALSE

\* the classifier has been given nothing
InitCls ==
  /\ err = <<>>
  /\ classified = NoStatus

\* no identifier was made yet
InitUlid ==
  /\ now = 0
  /\ issued = <<>>

NoFile == [magic |-> "absent", blocks |-> <<>>]
NoContent == 0
NoResp == [kind |-> "none", status |-> NoStatus, body |-> <<>>]

\* no request for the file handlers was served yet, ./record.avro is absent
InitFile ==
  /\ schema = "valid"
  /\ file = NoFile
  /\ resp = NoResp
  /\ lastUp = NoContent

Init ==
  /\ InitReqs
  /\ InitServer
  /\ InitCls
  /\ InitUlid
  /\ InitFile

\* ------------------------------------------------------ request identifier
\* MakeRequestUlid::make_request_id: Ulid::new() is a fresh value at every
\* call (timestamp and random bits), here tagged by the request it is made
\* for; it never fails and never equals a value a client sent
make_request_id(r) == <<"ulid", r>>

\* SetRequestId: a request that already carries the header keeps it,
\* otherwise the header is set to what make_request_id returns
SetRequestId(h, fresh) == IF h # NoId THEN h ELSE fresh

\* Trace: DefaultOnResponse records the status of the response the inner
\* service returned; a span that is dropped with its future records none
OnResponse(st) == st

\* PropagateRequestId: the response gets the request's header value
PropagateRequestId(rid) == rid

\* ------------------------------------------------------------- admission
\* the stages a request goes through when ConcurrencyLimit::poll_ready
\* obtains a permit and the stack is called, outermost layer first
CallStages == <<"admission", "deadline", "identification", "trace_open", "handler">>

\* Semaphore::acquire: a permit is taken at once when one is free and no
\* earlier request is queued for it
PermitFree(rt) == permits[rt] > 0 /\ queue[rt] = <<>>

DropPermitLeak(rt) == permits

\* Drop of the OwnedSemaphorePermit held by the request's future
DropPermit(rt) == [permits EXCEPT ![rt] = @ + 1]

StartWithoutPermit(r, rt, h) ==
  /\ UNCHANGED <<permits, holds>>
  /\ pc' = [pc EXCEPT ![r] = "running"]
  /\ elapsed' = [elapsed EXCEPT ![r] = 0]
  /\ reqId' = [reqId EXCEPT ![r] = SetRequestId(h, make_request_id(r))]
  /\ generated' = [generated EXCEPT ![r] = (h = NoId)]
  /\ log' = [log EXCEPT ![r] = @ \o Tail(CallStages)]

\* Request r of route rt, with header h, gets a permit and the stack is
\* called: the deadline starts, the identifier is assigned, the span is
\* opened and the handler starts.
Start(r, rt, h) ==
  /\ permits' = [permits EXCEPT ![rt] = @ - 1]
  /\ holds' = [holds EXCEPT ![r] = TRUE]
  /\ pc' = [pc EXCEPT ![r] = "running"]
  /\ elapsed' = [elapsed EXCEPT ![r] = 0]
  /\ reqId' = [reqId EXCEPT ![r] = SetRequestId(h, make_request_id(r))]
  /\ generated' = [generated EXCEPT ![r] = (h = NoId)]
  /\ log' = [log EXCEPT ![r] = @ \o CallStages]

\* ------------------------------------------------------------- listener
AcceptingAlways == TRUE

\* with_graceful_shutdown: the listener accepts until the signal future completes
Accepting == ~sig

InFlight == {r \in Reqs : pc[r] \in {"waiting", "running"}}

\* the connections being served
Open == {r \in Reqs : pc[r] \in {"waiting", "running", "done", "aborted"}}

\* A client opens a connection and sends request r for route rt, with
\* x-request-id header h (NoId: no such header).  Requests are numbered in
\* order of arrival.  The request enters the stack of its route: it takes a
\* permit, or queues for one.
Arrive(r, rt, h) ==
  /\ pc[r] = "idle"
  /\ r > 1 => pc[r - 1] # "idle"
  /\ afterSig' = [afterSig EXCEPT ![r] = sig]
  /\ IF ~(Accepting /\ ~exited)
     THEN /\ pc' = [pc EXCEPT ![r] = "refused"]
          /\ UNCHANGED <<route, inHdr, fullAtArrival, queue, permits, holds,
                         elapsed, reqId, generated, log>>
     ELSE /\ route' = [route EXCEPT ![r] = rt]
          /\ inHdr' = [inHdr EXCEPT ![r] = h]
          /\ fullAtArrival' = [fullAtArrival EXCEPT ![r] = (permits[rt] = 0)]
          /\ IF PermitFree(rt)
             THEN /\ Start(r, rt, h)
                  /\ UNCHANGED queue
             ELSE /\ pc' = [pc EXCEPT ![r] = "waiting"]
                  /\ queue' = [queue EXCEPT ![rt] = Append(@, r)]
                  /\ UNCHANGED <<permits, holds, elapsed, reqId, generated, log>>
  /\ UNCHANGED <<status, respHdr, traced, waited, releases>>
  /\ UNCHANGED <<sig, busyAtSig, exited>>
  /\ UNCHANGED auxVars

\* The semaphore of r's route grants a permit to r, the first in its queue.
Admit(r) ==
  /\ pc[r] = "waiting"
  /\ queue[route[r]] # <<>> /\ Head(queue[route[r]]) = r
  /\ permits[route[r]] > 0
  /\ queue' = [queue EXCEPT ![route[r]] = Tail(@)]
  /\ Start(r, route[r], inHdr[r])
  /\ UNCHANGED <<route, inHdr, status, respHdr, traced, waited, releases,
                 fullAtArrival, afterSig>>
  /\ UNCHANGED <<sig, busyAtSig, exited>>
  /\ UNCHANGED auxVars

\* ---------------------------------------------------------- the handler
\* The handler of r returns: Trace records the response (on_response),
\* PropagateRequestId copies the identifier to it, the response goes out
\* through Timeout, ConcurrencyLimit and HandleError unchanged, and the
\* finished future drops its permit.
HandlerComplete(r) ==
  /\ pc[r] = "running"
  /\ elapsed[r] >= Duration(route[r])
  /\ pc' = [pc EXCEPT ![r] = "done"]
  /\ status' = [status EXCEPT ![r] = 200]
  /\ respHdr' = [respHdr EXCEPT ![r] = PropagateRequestId(reqId[r])]
  /\ traced' = [traced EXCEPT ![r] = OnResponse(200)]
  /\ log' = [log EXCEPT ![r] = Append(@, "trace_close")]
  /\ holds' = [holds EXCEPT ![r] = FALSE]
  /\ releases' = [releases EXCEPT ![r] = @ + 1]
  /\ permits' = DropPermit(route[r])
  /\ UNCHANGED <<route, inHdr, reqId, generated, elapsed, waited, fullAtArrival,
                 afterSig>>
  /\ UNCHANGED <<queue, sig, busyAtSig, exited>>
  /\ UNCHANGED auxVars

\* The handler of r panics (an unwrap() of a failed file or codec
\* operation): the connection's task unwinds, which drops the future chain
\* with its span and its permit; the connection ends with no response.
HandlerPanic(r) ==
  /\ pc[r] = "running"
  /\ CanPanic(route[r])
  /\ elapsed[r] >= Duration(route[r])
  /\ pc' = [pc EXCEPT ![r] = "aborted"]
  /\ log' = [log EXCEPT ![r] = Append(@, "trace_close")]
  /\ holds' = [holds EXCEPT ![r] = FALSE]
  /\ releases' = [releases EXCEPT ![r] = @ + 1]
  /\ permits' = DropPermit(route[r])
  /\ UNCHANGED <<route, inHdr, reqId, generated, elapsed, status, respHdr, traced,
                 waited, fullAtArrival, afterSig>>
  /\ UNCHANGED <<queue, sig, busyAtSig, exited>>
  /\ UNCHANGED auxVars

\* ---------------------------------------------------------- the deadline
DeadlineDueFromArrival(r) ==
  waited[r] + elapsed[r] >= Deadline /\ elapsed[r] < Duration(route[r])

DeadlineDueEarly(r) == elapsed[r] >= DelayWork /\ elapsed[r] < Duration(route[r])

\* Timeout polls the handler first and its timer second: the timer wins
\* only when the handler has not returned by then
DeadlineDue(r) == elapsed[r] >= Deadline /\ elapsed[r] < Duration(route[r])

DeadlineExpireDetached(r) ==
  /\ pc[r] = "running"
  /\ DeadlineDue(r)
  /\ status[r] = NoStatus
  /\ status' = [status EXCEPT ![r] = handle_error(<<"Elapsed">>)]
  /\ UNCHANGED <<pc, route, inHdr, reqId, generated, elapsed, respHdr, traced, waited,
                 log, holds, releases, fullAtArrival, afterSig>>
  /\ UNCHANGED srvVars
  /\ UNCHANGED auxVars

\* The deadline of r expires: Timeout returns the error Elapsed; the inner
\* future (PropagateRequestId, Trace with its span, SetRequestId, the
\* handler) and the permit are dropped; HandleError gives the error to
\* handle_error and answers with the status it returns.
DeadlineExpire(r) ==
  /\ pc[r] = "running"
  /\ DeadlineDue(r)
  /\ pc' = [pc EXCEPT ![r] = "done"]
  /\ status' = [status EXCEPT ![r] = handle_error(<<"Elapsed">>)]
  /\ respHdr' = [respHdr EXCEPT ![r] = NoId]
  /\ log' = [log EXCEPT ![r] = @ \o <<"trace_close", "classification">>]
  /\ holds' = [holds EXCEPT ![r] = FALSE]
  /\ releases' = [releases EXCEPT ![r] = @ + 1]
  /\ permits' = DropPermit(route[r])
  /\ UNCHANGED <<route, inHdr, reqId, generated, elapsed, traced, waited,
                 fullAtArrival, afterSig>>
  /\ UNCHANGED <<queue, sig, busyAtSig, exited>>
  /\ UNCHANGED auxVars

\* The connection of r ends after its response was written (or after the
\* panic of its handler), and what the server held for the request is gone.
Close(r) ==
  /\ pc[r] \in {"done", "aborted"}
  /\ pc' = [pc EXCEPT ![r] = IF pc[r] = "done" THEN "closed" ELSE "dropped"]
  /\ route' = [route EXCEPT ![r] = NoRoute]
  /\ inHdr' = [inHdr EXCEPT ![r] = NoId]
  /\ reqId' = [reqId EXCEPT ![r] = NoId]
  /\ generated' = [generated EXCEPT ![r] = FALSE]
  /\ elapsed' = [elapsed EXCEPT ![r] = 0]
  /\ status' = [status EXCEPT ![r] = NoStatus]
  /\ respHdr' = [respHdr EXCEPT ![r] = NoId]
  /\ traced' = [traced EXCEPT ![r] = NoStatus]
  /\ waited' = [waited EXCEPT ![r] = 0]
  /\ log' = [log EXCEPT ![r] = <<>>]
  /\ releases' = [releases EXCEPT ![r] = 0]
  /\ fullAtArrival' = [fullAtArrival EXCEPT ![r] = FALSE]
  /\ UNCHANGED <<holds, afterSig>>
  /\ UNCHANGED srvVars
  /\ UNCHANGED auxVars

\* ------------------------------------------------------------------ time
\* something is ready to run now: time does not pass before it has run
Urgent ==
  \/ \E r \in Reqs : pc[r] = "running"
                     /\ (elapsed[r] >= Duration(route[r]) \/ elapsed[r] >= Deadline)
  \/ \E rt \in Routes : queue[rt] # <<>> /\ permits[rt] > 0

\* Time passes while handlers sleep.
Tick ==
  /\ \E r \in Reqs : pc[r] = "running"
  /\ ~Urgent
  /\ elapsed' = [r \in Reqs |-> IF pc[r] = "running" THEN elapsed[r] + TickLen
                                ELSE elapsed[r]]
  /\ waited' = [r \in Reqs |-> IF pc[r] = "waiting" THEN waited[r] + TickLen
                               ELSE waited[r]]
  /\ UNCHANGED <<pc, route, inHdr, reqId, generated, status, respHdr, traced, log,
                 holds, releases, fullAtArrival, afterSig>>
  /\ UNCHANGED <<permits, queue, sig, busyAtSig, exited>>
  /\ UNCHANGED auxVars

\* ------------------------------------------------------------- shutdown
\* shutdown_signal completes: Ctrl-C was pressed.
Signal ==
  /\ ~sig
  /\ sig' = TRUE
  /\ busyAtSig' = (InFlight # {})
  /\ UNCHANGED reqVars
  /\ UNCHANGED <<permits, queue, exited>>
  /\ UNCHANGED auxVars

ExitReadyAtOnce == TRUE

\* graceful shutdown waits for the connections being served to end
ExitReady == Open = {}

\* The server future completes and main returns.
ServerExit ==
  /\ sig
  /\ ~exited
  /\ ExitReady
  /\ exited' = TRUE
  /\ UNCHANGED reqVars
  /\ UNCHANGED <<permits, queue, sig, busyAtSig>>
  /\ UNCHANGED auxVars

\* the steps of the server itself, whatever the clients send
Serve ==
  \/ \E r \in Reqs : Admit(r)
  \/ \E r \in Reqs : HandlerComplete(r)
  \/ \E r \in Reqs : HandlerPanic(r)
  \/ \E r \in Reqs : DeadlineExpire(r)
  \/ \E r \in Reqs : Close(r)
  \/ Tick
  \/ ServerExit

Next ==
  \/ \E r \in Reqs, rt \in Routes, h \in InboundIds \cup {NoId} : Arrive(r, rt, h)
  \/ Signal
  \/ Serve

Spec == Init /\ [][Next]_vars

\* Progress: the clients send no identifier header (the header plays no
\* part in admission, deadlines or shutdown), and the runtime keeps polling
\* the tasks that can make progress and firing the timers that are due.
NextFair ==
  \/ \E r \in Reqs, rt \in Routes : Arrive(r, rt, NoId)
  \/ Signal
  \/ Serve

FairSpec == Init /\ [][NextFair]_vars /\ WF_vars(Serve)

\* ------------------------------------------- the classifier on its own
InitClassify ==
  /\ InitReqs
  /\ InitServer
  /\ InitUlid
  /\ InitFile
  /\ err \in Errors
  /\ classified = NoStatus

\* HandleError calls handle_error with the error the inner service returned.
Classify ==
  /\ classified = NoStatus
  /\ classified' = handle_error(err)
  /\ UNCHANGED <<err, reqVars, srvVars, ulidVars, fileVars>>

NextClassify == Classify

SpecClassify == InitClassify /\ [][NextClassify]_vars

\* --------------------------------------------- the identifiers on their own
\* Ulid::new().to_string(): 26 characters, the timestamp's first and the
\* random bits' after them, most significant first, so that two of them
\* compare as strings the way <<timestamp, random bits>> compare
UlidString(ms, rnd) == <<ms, rnd>>

\* a is before b in the order of strings of equal length
LexLess(a, b) ==
  \E i \in 1..Len(a) : a[i] < b[i] /\ \A j \in 1..(i - 1) : a[j] = b[j]

\* The clock Ulid::new() reads moves on by a millisecond.
UlidClockTick ==
  /\ now < MaxClock
  /\ now' = now + 1
  /\ UNCHANGED <<issued, reqVars, srvVars, clsVars, fileVars>>

\* make_request_id is called for a request without the header: Ulid::new()
\* reads the clock and draws fresh random bits.
UlidNew ==
  /\ Len(issued) < MaxIds
  /\ \E rnd \in 0..MaxRand : issued' = Append(issued, UlidString(now, rnd))
  /\ UNCHANGED <<now, reqVars, srvVars, clsVars, fileVars>>

NextUlid == UlidClockTick \/ UlidNew

SpecUlid == Init /\ [][NextUlid]_vars

\* ------------------------------------------- the file handlers on their own
Contents == 1..MaxContent

\* Record { content } as an Avro value of the schema's record type
ToAvro(rec) == <<"record", <<"content", <<"string", rec.content>>>>>>

\* apache_avro::from_value::<Record>
FromAvro(v) == [content |-> v[2][2][2]]

AvroWriteUnflushed(recs) == [magic |-> "Obj", blocks |-> <<>>]

\* Writer::new, append_ser, into_inner: a container file of a header and one
\* block that holds the records appended
AvroWrite(recs) == [magic |-> "Obj", blocks |-> <<recs>>]

RECURSIVE Concat(_)
Concat(ss) == IF ss = <<>> THEN <<>> ELSE Head(ss) \o Concat(Tail(ss))

\* Reader::with_schema: the records of all blocks, in order
AvroRead(f) == Concat(f.blocks)

\* the response body of avro_to_json: every record read, converted to a
\* Record and to a JSON object, collected into a JSON array
ToJsonArray(values) == [i \in 1..Len(values) |-> FromAvro(values[i])]

Panicked(k) == [kind |-> k, status |-> NoStatus, body |-> <<"connection closed">>]

SchemaStates == {"valid", "missing", "malformed"}

\* read_to_string(./schema.avro).unwrap() and Schema::parse_str(..).unwrap()
\* both return
SchemaOk == schema = "valid"

\* POST /upload with body {"content": c}: json_to_avro.
Upload(c) ==
  /\ IF SchemaOk
     THEN /\ file' = AvroWrite(<<ToAvro([content |-> c])>>)
          /\ resp' = [kind |-> "upload", status |-> 200, body |-> <<>>]
          /\ lastUp' = c
     ELSE /\ resp' = Panicked("upload")
          /\ UNCHANGED <<file, lastUp>>
  /\ UNCHANGED <<schema, reqVars, srvVars, clsVars, ulidVars>>

\* POST /upload with a body that is not an Input: the Json extractor
\* answers and json_to_avro is not called.
UploadRejected ==
  /\ resp' = [kind |-> "upload", status |-> 422, body |-> <<"rejection">>]
  /\ UNCHANGED <<schema, file, lastUp, reqVars, srvVars, clsVars, ulidVars>>

\* GET /download: avro_to_json.
Download ==
  /\ IF SchemaOk /\ file # NoFile
     THEN resp' = [kind |-> "download", status |-> 200,
                   body |-> ToJsonArray(AvroRead(file))]
     ELSE resp' = Panicked("download")
  /\ UNCHANGED <<schema, file, lastUp, reqVars, srvVars, clsVars, ulidVars>>

\* Outside the program, ./schema.avro is removed, damaged or put back.
SchemaChange(st) ==
  /\ st # schema
  /\ schema' = st
  /\ UNCHANGED <<file, resp, lastUp, reqVars, srvVars, clsVars, ulidVars>>

\* ./record.avro may be absent or left by an earlier run
InitFiles ==
  /\ InitReqs
  /\ InitServer
  /\ InitCls
  /\ InitUlid
  /\ schema \in SchemaStates
  /\ file \in {NoFile} \cup {AvroWrite(<<ToAvro([content |-> c])>>) : c \in Contents}
  /\ resp = NoResp
  /\ lastUp = NoContent

NextFile ==
  \/ \E c \in Contents : Upload(c)
  \/ UploadRejected
  \/ Download
  \/ \E st \in SchemaStates : SchemaChange(st)

SpecFile == InitFiles /\ [][NextFile]_vars

\* =================================================================== claims
\* the requests whose future holds a permit: admitted and not yet finished
Outstanding == {r \in Reqs : holds[r]}

\* C1: in every reachable state the process-wide number of outstanding
\* admission tokens, over all routes together, is at most the limit N = 2.
C1_OutstandingAtMostLimit == Cardinality(Outstanding) <= Limit

\* C2: every admitted request releases its admission token exactly once on
\* every exit path (handler returns, handler panics, deadline expires), it
\* eventually does so (whenever permits are held, a moment comes when all
\* of them have been released), and when no admitted request is left
\* every semaphore has its N permits again.
C2_TokenReleasedOnce ==
  /\ [](\A r \in Reqs :
          /\ releases[r] <= 1
          /\ pc[r] \in {"done", "aborted"} => releases[r] = 1 /\ ~holds[r]
          /\ pc[r] \in {"closed", "dropped"} => ~holds[r])
  /\ [](Outstanding = {} => \A rt \in Routes : permits[rt] = Limit)
  /\ (Outstanding # {}) ~> (Outstanding = {})

\* a request timed out, has dropped its permit once, and the semaphore of
\* its route is full again
C2_Witness ==
  \E r \in Reqs :
    /\ pc[r] = "done" /\ status[r] = 408
    /\ releases[r] = 1 /\ ~holds[r]
    /\ Outstanding = {}
    /\ permits[route[r]] = Limit

\* C3: a request that arrives while the N permits are taken is answered 429
\* at once and never waits for a slot.
C3_RejectedWhenFull ==
  \A r \in Reqs :
    fullAtArrival[r] =>
      /\ pc[r] # "waiting"
      /\ pc[r] = "done" => status[r] = 429

\* C4: handle_error maps every error to a status: an Elapsed error to 408,
\* an Overloaded error to 429, every other error to 500, and leaves none
\* unmapped.
C4_ClassifierTotal ==
  /\ classified = NoStatus => ENABLED Classify
  /\ classified # NoStatus =>
       /\ classified \in {408, 429, 500}
       /\ classified = 408 <=> Head(err) = "Elapsed"
       /\ classified = 429 <=> Head(err) = "Overloaded"
       /\ classified = 500 <=> Head(err) \notin {"Elapsed", "Overloaded"}

\* an error that is neither Elapsed nor Overloaded itself, but was caused
\* by an Elapsed error, was classified 500
C4_Witness ==
  /\ classified = 500
  /\ Len(err) > 1
  /\ Head(err) = "Io"
  /\ err[2] = "Elapsed"

\* the running requests whose handler takes longer than the deadline
LongRunning == {r \in Reqs : pc[r] = "running" /\ Duration(route[r]) > Deadline}

\* C5: an admitted request whose handler takes longer than the deadline
\* (GET /timeout: 20 s against 10 s) gets a 408 response, and gets it when
\* the deadline expires, not when the handler would have returned: such a
\* request never runs past the deadline, it eventually stops running, and
\* it ends in no other way than a 408 at the deadline.
C5_TimeoutAtDeadline ==
  /\ [](\A r \in Reqs :
          Duration(route[r]) > Deadline =>
            /\ pc[r] = "running" => elapsed[r] <= Deadline
            /\ pc[r] \in {"done", "aborted"} =>
                 pc[r] = "done" /\ status[r] = 408 /\ elapsed[r] = Deadline)
  /\ (LongRunning # {}) ~> (LongRunning = {})

\* a GET /timeout request was answered 408 ten seconds after it started
C5_Witness ==
  \E r \in Reqs :
    /\ pc[r] = "done" /\ route[r] = "timeout"
    /\ status[r] = 408 /\ elapsed[r] = Deadline

\* position of stage s in the stage log l, 0 when it is not there
Pos(l, s) == IF \E i \in 1..Len(l) : l[i] = s
             THEN CHOOSE i \in 1..Len(l) : l[i] = s
             ELSE 0

ClaimedOrder == <<"identification", "admission", "deadline", "handler",
                  "classification", "trace_close">>

\* C6: the stages of every request happen in the order identification,
\* admission, deadline start, handler, classification, trace-close.
C6_StageOrder ==
  \A r \in Reqs : \A i, j \in 1..Len(ClaimedOrder) :
    (i < j /\ Pos(log[r], ClaimedOrder[i]) > 0 /\ Pos(log[r], ClaimedOrder[j]) > 0)
      => Pos(log[r], ClaimedOrder[i]) < Pos(log[r], ClaimedOrder[j])

\* C7: every response carries the x-request-id header with the identifier
\* assigned to its request, whatever its status.
C7_ResponseCarriesId ==
  \A r \in Reqs :
    pc[r] = "done" => respHdr[r] # NoId /\ respHdr[r] = reqId[r]

\* C8: a request that carries the identifier header keeps that value, no
\* identifier is generated for it and its response carries the same value;
\* an identifier is generated only for a request without the header.
C8_InboundIdReused ==
  \A r \in Reqs :
    /\ (pc[r] \in {"running", "done", "aborted"} /\ inHdr[r] # NoId) =>
         reqId[r] = inHdr[r] /\ ~generated[r]
    /\ generated[r] => inHdr[r] = NoId
    /\ (pc[r] = "done" /\ inHdr[r] # NoId) => respHdr[r] = inHdr[r]

C11_ExitAfterSignal ==
  /\ [](exited => Open = {} /\ Outstanding = {}
                  /\ \A rt \in Routes : queue[rt] = <<>>)
  /\ sig ~> exited

\* the signal came while requests were in flight, every request of the
\* run was served to its end, and the process has exited
C11_Witness ==
  /\ exited
  /\ busyAtSig
  /\ \A r \in Reqs : pc[r] \in {"closed", "dropped"}

\* C12: admission comes strictly before the handler: a request whose
\* handler has started went through admission first and, while its handler
\* runs, it holds a permit; a request that was not admitted (queued or
\* refused) has executed no handler step.
C12_AdmissionBeforeHandler ==
  \A r \in Reqs :
    /\ pc[r] = "running" => holds[r]
    /\ Pos(log[r], "handler") > 0 =>
         /\ Pos(log[r], "admission") > 0
         /\ Pos(log[r], "admission") < Pos(log[r], "handler")
    /\ pc[r] \in {"idle", "waiting", "refused"} =>
         ~holds[r] /\ Pos(log[r], "handler") = 0 /\ elapsed[r] = 0

\* a request is queued with no handler step done while the permits of its
\* route are held by running requests
C12_Witness ==
  \E r \in Reqs :
    /\ pc[r] = "waiting" /\ log[r] = <<>>
    /\ Cardinality({q \in Reqs : holds[q] /\ pc[q] = "running"
                                 /\ route[q] = route[r]}) = Limit

\* C13: every request gets exactly one trace open and exactly one trace
\* close, and the close records the status of the request's outcome on
\* every exit path: handler response, timeout, handler failure.
C13_TraceClosedWithOutcome ==
  \A r \in Reqs :
    pc[r] \in {"done", "aborted"} =>
      /\ Cardinality({i \in 1..Len(log[r]) : log[r][i] = "trace_open"}) = 1
      /\ Cardinality({i \in 1..Len(log[r]) : log[r][i] = "trace_close"}) = 1
      /\ traced[r] # NoStatus
      /\ pc[r] = "done" => traced[r] = status[r]

\* C14: a request whose handler failed internally is answered with status
\* 500: its connection never ends without that response.
C14_FailureGives500 ==
  \A r \in Reqs :
    pc[r] = "aborted" => status[r] = 500

\* C15: identifiers come out in non-decreasing order: an identifier made
\* later never compares smaller, as a string, than one made earlier, also
\* when both are made within the same tick of the clock.
C15_IdsNonDecreasing ==
  \A i, j \in 1..Len(issued) : i < j => ~LexLess(issued[j], issued[i])

\* C17: after an upload of content x has succeeded, with no other upload
\* since, a download that returns a response returns a JSON array that
\* contains the record {content: x}.
C17_RoundTrip ==
  (resp.kind = "download" /\ resp.status = 200 /\ lastUp # NoContent) =>
    \E i \in 1..Len(resp.body) : resp.body[i] = [content |-> lastUp]

\* a download after an upload that replaced an older record file returned
\* exactly the uploaded record
C17_Witness ==
  /\ resp.kind = "download" /\ resp.status = 200
  /\ lastUp # NoContent
  /\ resp.body = <<[content |-> lastUp]>>

\* the GET /healthcheck requests that found a free permit on arrival and
\* are not answered yet
HealthPending ==
  {r \in Reqs : route[r] = "healthcheck" /\ ~fullAtArrival[r]
                /\ pc[r] \in {"waiting", "running"}}

\* C16: a GET /healthcheck request that arrives while fewer than N permits
\* are taken is answered, and its answer is always 200 with an empty body,
\* never 408 or 429 (and never a dropped connection).
C16_HealthcheckOk ==
  /\ [](\A r \in Reqs :
          (route[r] = "healthcheck" /\ ~fullAtArrival[r]) =>
            /\ pc[r] \in {"waiting", "running", "done"}
            /\ pc[r] = "done" =>
                 /\ status[r] = 200
                 /\ HandlerBody(route[r]) = <<>>
                 /\ elapsed[r] < Deadline)
  /\ (HealthPending # {}) ~> (HealthPending = {})

\* a healthcheck got its 200 while another healthcheck held a permit
C16_Witness ==
  \E r \in Reqs :
    /\ route[r] = "healthcheck" /\ ~fullAtArrival[r]
    /\ pc[r] = "done" /\ status[r] = 200
    /\ Cardinality({q \in Reqs : holds[q] /\ route[q] = "healthcheck"}) = 1

\* C18: every request the listener accepted ends with exactly one response:
\* none ends without one.
C18_EveryRequestAnswered ==
  \A r \in Reqs :
    pc[r] \in {"done", "aborted"} => pc[r] = "done" /\ status[r] # NoStatus

\* the part of C18 about waiting: whenever requests are queued for a
\* permit, a moment comes when none is
QueuedEventuallyAdmitted ==
  ((\E r \in Reqs : pc[r] = "waiting") ~> (\A r \in Reqs : pc[r] # "waiting"))

C20_TimeoutFreesSlot ==
  \A r \in Reqs :
    status[r] = 408 =>
      /\ pc[r] = "done"
      /\ ~holds[r] /\ releases[r] = 1
      /\ permits[route[r]]
           + Cardinality({q \in Reqs : holds[q] /\ route[q] = route[r]}) = Limit
      /\ elapsed[r] = Deadline
      /\ ~ENABLED HandlerComplete(r)

\* a queued request runs on the permit of a request that was just answered
\* 408
C20_Witness ==
  \E r, q \in Reqs :
    /\ status[r] = 408 /\ pc[r] = "done" /\ ~holds[r]
    /\ pc[q] = "running" /\ holds[q]
    /\ route[q] = route[r]
    /\ waited[q] > 0

====
